---------------------------- MODULE Spec2Model ----------------------------
(***************************************************************************)
(* A model of the go-appserver core: the worker pool (server/pool.go), the *)
(* worker (server/worker.go: state flags, Handle, Stream, restart), the    *)
(* child process on the other side of the worker's pipes, the server's two *)
(* pools (server/server.go) and the SSE hub.                               *)
(*                                                                         *)
(* The specifications share the variables:                                 *)
(*   SpecPool  pool operations on workers that carry only their flags, as  *)
(*             pool_test.go drives them (no request I/O);                  *)
(*   SpecSeq   one caller issuing Handle/Stream calls step by step, with   *)
(*             DrainAll, the hot-reload watcher and the child process      *)
(*             interleaved;                                                *)
(*   SpecFrame the same with frames of every length class;                 *)
(*   SpecScale the same with ScaleTo called beside the calls;              *)
(*   Spec      the same with NTasks concurrent callers;                    *)
(*   SpecServer Server.Dispatch on a fast and a slow pool, one caller;     *)
(*   SpecHub   the hub: Subscribe, Unsubscribe, Publish, the dispatcher;   *)
(*   SpecSubs  the hub with more Unsubscribe calls and fewer events;       *)
(*   SpecHubLive the hub with its dispatcher scheduled fairly.             *)
(***************************************************************************)
EXTENDS Integers, Sequences, FiniteSets, TLC

\* ------------------------------------------------------------------ bounds
MaxPool == 3
\* largest pool size (NewPool count, ScaleTo newSize) in SpecPool
MaxIds == 4
\* workers ever created in one behaviour of SpecPool (NewWorker / factory)
NTasks == 2
\* concurrent callers in Spec
MaxReqs == 3
\* Handle/Stream calls started in one behaviour of SpecSeq
MaxEnv == 2
\* DrainAll calls and hot-reload events in one behaviour of SpecSeq
ConcReqs == 2
\* Handle/Stream calls started in one behaviour of Spec
ConcEnv == 1
\* DrainAll calls and hot-reload events in one behaviour of Spec
MaxRequests == 2
\* the workers' maxRequests (NewPool's second argument)
NWorkers == 1
\* the pool's size in Spec and SpecSeq (NewPool's first argument)
MaxPerPool == 1
\* workers NewServer gives each of its two pools
MaxSrvReqs == 2
\* calls of Server.Dispatch
MaxClients == 3
\* subscribers the hub is given
MaxPub == 4
\* events published
ClientCap == 2
\* capacity of a subscriber's queue (the code's is 16: a shorter queue fills
\* and drops in the same way)
IncomingCap == 3
\* capacity of the hub's incoming queue (the code's is 256)
MaxRecv == 1
\* events the subscribers take from their queues
MaxUnsub == 2
\* Unsubscribe calls in SpecSubs
HubUnsub == 1
\* Unsubscribe calls in SpecHub and SpecHubLive
SubPub == 2
\* events published in SpecSubs
LiveClients == 2
\* subscribers in SpecHubLive
FrameReqs == 2
\* Handle/Stream calls started in one behaviour of SpecFrame
FrameEnv == 1
\* DrainAll calls and hot-reload events in one behaviour of SpecFrame
ScaleReqs == 2
\* Handle/Stream calls started in one behaviour of SpecScale
ScaleEnv == 1
\* DrainAll calls, hot-reload events and ScaleTo calls in one behaviour of
\* SpecScale
ScaleMax == 2
\* largest newSize given to ScaleTo in SpecScale
SomeLen == 1
\* the length the child declares for a frame whose length is not at stake

\* --------------------------------------------------------------- constants
WorkerIdle == 0
WorkerBusy == 1
WorkerDraining == 2
WorkerDead == 3
WorkerStates == {WorkerIdle, WorkerBusy, WorkerDraining, WorkerDead}

Nil == 0
\* the nil *Worker
MaxFrameLen == 10 * 1024 * 1024
\* the largest frame a reader accepts
NoLen == -1
\* no frame header read
WorkerIds == 1..MaxIds

VARIABLES
    workers,    \* WorkerPool.workers: sequence of worker ids
    next,       \* WorkerPool.next: the round-robin cursor
    wk,         \* the Worker objects: id -> [dead, state, inFlight, requestCount, mu]
    created,    \* how many workers NewWorker / the factory have made
    last,       \* what the last pool operation was given, saw and returned
    child,      \* the process behind each worker: [alive, stdin, stdout]
    th,         \* the threads: callers, their Stream goroutines, the watcher
    hist,       \* history: successful calls per worker, what DrainAll saw
    nreq,       \* calls started so far
    nenv,       \* DrainAll calls and reload events so far
    clients,    \* SSEHub.clients: a map, its keys channels, to sets of subscribers
    incoming,   \* SSEHub.incoming: the events published and not yet fanned out
    cl,         \* the sseClient objects: id -> [ch, done, channel]
    run,        \* SSEHub.run: the dispatcher's position
    pub,        \* the publisher: idle, or blocked in Publish's send
    hh,         \* history of the hub: publications, receptions, last fan-out
    slowPool,   \* Server.slowPool: [workers, next] (workers, next are the fast pool)
    srv         \* what the last Server.Dispatch was given and chose

hubVars == <<clients, incoming, cl, run, pub, hh>>

vars == <<workers, next, wk, created, last, child, th, hist, nreq, nenv, hubVars,
          slowPool, srv>>

poolVars == <<workers, next, created>>
reqVars == <<child, th, hist, nreq, nenv>>

Range(s) == {s[i] : i \in 1..Len(s)}

\* ------------------------------------------------------ Worker state flags
\* &Worker{...} as NewWorker returns it (and the zero value the tests use)
NewWorker ==
    [dead |-> FALSE, state |-> WorkerIdle, inFlight |-> 0, requestCount |-> 0,
     mu |-> 0]

isDead(w) == wk[w].dead

isDraining(w) == wk[w].state = WorkerDraining

\* markDead, first critical section (deadMu): dead = true
markDeadFlag(r) == [r EXCEPT !.dead = TRUE]

\* markDead, second critical section (stateMu): state = WorkerDead
markDeadState(r) == [r EXCEPT !.state = WorkerDead]

\* markDead run without interruption
markDead(r) == markDeadState(markDeadFlag(r))

startDrainingKills(r) ==
    IF r.state # WorkerDead THEN markDead(r) ELSE r

\* startDraining: state = WorkerDraining unless state is WorkerDead
startDraining(r) ==
    IF r.state # WorkerDead THEN [r EXCEPT !.state = WorkerDraining] ELSE r

\* ------------------------------------------------------------- WorkerPool
UsableIgnoresDraining(w) == w # Nil /\ ~isDead(w)

\* the test of NextWorker's loop: w != nil && !w.isDead() && !w.isDraining()
Usable(w) == w # Nil /\ ~isDead(w) /\ ~isDraining(w)

\* NextWorker's for loop from iteration i with the cursor at nx: the worker
\* returned (Nil when the loop runs out), the cursor left behind and the
\* number of candidates examined.
RECURSIVE NextWorkerLoopOf(_, _, _)
NextWorkerLoopOf(ws, nx, i) ==
    LET n == Len(ws) IN
    IF i >= n THEN [w |-> Nil, next |-> nx, examined |-> i]
    ELSE LET w   == ws[nx + 1]
             nx2 == (nx + 1) % n
         IN  IF Usable(w) THEN [w |-> w, next |-> nx2, examined |-> i + 1]
             ELSE NextWorkerLoopOf(ws, nx2, i + 1)

\* the loop on the pool of workers, next
NextWorkerLoop(nx, i) == NextWorkerLoopOf(workers, nx, i)

\* NextWorker on a pool p = [workers, next]
NextWorkerOf(p) ==
    IF Len(p.workers) = 0 THEN [w |-> Nil, next |-> p.next, examined |-> 0]
    ELSE NextWorkerLoopOf(p.workers, p.next, 0)

NextWorkerStuck ==
    IF Len(workers) = 0 THEN [w |-> Nil, next |-> next, examined |-> 0]
    ELSE [NextWorkerLoop(next, 0) EXCEPT !.next = next]

\* NextWorker on the pool of workers, next
NextWorker ==
    IF Len(workers) = 0 THEN [w |-> Nil, next |-> next, examined |-> 0]
    ELSE NextWorkerLoop(next, 0)

\* DrainAll: startDraining on every worker of the list that is not dead
DrainAll ==
    [w \in WorkerIds |->
        IF w \in Range(workers) /\ ~isDead(w) THEN startDraining(wk[w])
        ELSE wk[w]]

\* Stats: len(p.workers) and the number of them with isDead()
Stats ==
    [Workers     |-> Len(workers),
     DeadWorkers |-> Cardinality({i \in 1..Len(workers) : isDead(workers[i])})]

ScaleShrinkKeepsCursor(newSize) ==
    [workers |-> SubSeq(workers, 1, newSize),
     next    |-> next,
     wk      |-> [w \in WorkerIds |->
                    IF \E i \in (newSize + 1)..Len(workers) : workers[i] = w
                    THEN startDraining(wk[w]) ELSE wk[w]],
     created |-> created, err |-> "nil", calls |-> 0]

ScaleShrinkSkipsFirstExtra(newSize) ==
    [workers |-> SubSeq(workers, 1, newSize),
     next    |-> IF next >= newSize THEN 0 ELSE next,
     wk      |-> [w \in WorkerIds |->
                    IF \E i \in (newSize + 2)..Len(workers) : workers[i] = w
                    THEN startDraining(wk[w]) ELSE wk[w]],
     created |-> created, err |-> "nil", calls |-> 0]

\* ScaleTo, case newSize < cur: the extras start draining, the list is
\* truncated, the cursor is reset when it fell off the list.
ScaleShrink(newSize) ==
    [workers |-> SubSeq(workers, 1, newSize),
     next    |-> IF next >= newSize THEN 0 ELSE next,
     wk      |-> [w \in WorkerIds |->
                    IF \E i \in (newSize + 1)..Len(workers) : workers[i] = w
                    THEN startDraining(wk[w]) ELSE wk[w]],
     created |-> created, err |-> "nil", calls |-> 0]

ScaleGrowRollsBack(ws, i, newSize, calls, failAt) ==
    IF failAt \in 1..(newSize - i)
    THEN [workers |-> workers, next |-> next, wk |-> wk,
          created |-> created + failAt - 1, err |-> "factory", calls |-> failAt]
    ELSE [workers |-> ws \o [k \in 1..(newSize - i) |-> created + k],
          next |-> next, wk |-> wk, created |-> created + (newSize - i),
          err |-> "nil", calls |-> newSize - i]

\* ScaleTo, case grow: the loop from i with ws the list so far, after `calls`
\* factory calls. The factory's k-th call fails iff k = failAt (0: never);
\* a call that succeeds returns the next new worker.
RECURSIVE ScaleGrowLoop(_, _, _, _, _)
ScaleGrowLoop(ws, i, newSize, calls, failAt) ==
    IF i >= newSize
    THEN [workers |-> ws, next |-> next, wk |-> wk,
          created |-> created + calls, err |-> "nil", calls |-> calls]
    ELSE IF calls + 1 = failAt
         THEN [workers |-> ws, next |-> next, wk |-> wk,
               created |-> created + calls, err |-> "factory", calls |-> calls + 1]
         ELSE ScaleGrowLoop(Append(ws, created + calls + 1), i + 1, newSize,
                            calls + 1, failAt)

ScaleTo(newSize, failAt) ==
    LET cur == Len(workers) IN
    IF newSize = cur
    THEN [workers |-> workers, next |-> next, wk |-> wk,
          created |-> created, err |-> "nil", calls |-> 0]
    ELSE IF newSize < cur THEN ScaleShrink(newSize)
    ELSE ScaleGrowLoop(workers, cur, newSize, 0, failAt)

\* ================================================================ SSEHub
Channels == {"a", "b"}
HubClients == 1..MaxClients

NoEvent == [id |-> 0, channel |-> "none"]

\* &sseClient{ch: make(chan sseEvent, ...), done: make(chan struct{})}
NewClient == [ch |-> <<>>, done |-> "open"]

\* no Unsubscribe call yet
NoUnsub == [c |-> 0, channel |-> "none", member |-> FALSE, closes |-> FALSE,
            wasOpen |-> FALSE, returned |-> FALSE]

\* no Publish call is waiting
NoPublish == [pc |-> "idle", channel |-> "none", waited |-> FALSE]

\* no Unsubscribe of the subscriber has returned
NotGone == -1

NoFan == [ev |-> NoEvent, subs |-> {}, offered |-> <<>>, sent |-> {},
          dropped |-> {}, len |-> [c \in HubClients |-> 0], done |-> FALSE]

\* NewSSEHub: no subscriber, an empty queue, the dispatcher started
NewSSEHub ==
    /\ clients = [c \in {} |-> {}]
    /\ incoming = <<>>
    /\ cl = [c \in HubClients |-> NewClient]
    /\ run = [pc |-> "range", ev |-> NoEvent, pending |-> {}]
    /\ pub = NoPublish
    /\ hh = [made |-> 0, pubs |-> <<>>, nrecv |-> 0, nunsub |-> 0,
             chanOf |-> [c \in HubClients |-> "none"],
             recv |-> [c \in HubClients |-> <<>>],
             drops |-> [c \in HubClients |-> {}],
             gone |-> [c \in HubClients |-> NotGone],
             fan |-> NoFan, unsub |-> NoUnsub]

srvVars == <<workers, next, wk, created, last, child, th, hist, nreq, nenv,
             slowPool, srv>>

\* h.mu is free: the dispatcher holds its read lock during a fan-out
HubUnlocked == run.pc = "range"

\* h.clients[channel]: the set under the key, nil (no subscriber) without it
Subs(channel) == IF channel \in DOMAIN clients THEN clients[channel] ELSE {}

\* the map m with key k set to v
MapSet(m, k, v) == [x \in DOMAIN m \cup {k} |-> IF x = k THEN v ELSE m[x]]

\* delete(m, k)
MapDelete(m, k) == [x \in DOMAIN m \ {k} |-> m[x]]

\* Subscribe(channel): a new client is added to the channel's set, which is
\* made if the key is missing
Subscribe(channel, maxClients) ==
    /\ HubUnlocked
    /\ hh.made < maxClients
    /\ LET c == hh.made + 1 IN
       /\ cl' = [cl EXCEPT ![c] = NewClient]
       /\ clients' = MapSet(clients, channel, Subs(channel) \cup {c})
       /\ hh' = [hh EXCEPT !.made = c, !.chanOf[c] = channel]
    /\ UNCHANGED <<incoming, run, pub, srvVars>>

\* close(c.done): closing a closed channel panics
Closed(d) == IF d = "open" THEN "closed" ELSE "panic"

\* Unsubscribe(channel, c): nothing when the channel has no key; otherwise c
\* is deleted from the set, c.done closed, and the key deleted when the set
\* is empty. A close that panics ends the call there (the deferred Unlock
\* runs, the key stays); the hub is used on when the caller recovers.
UnsubscribeOf(channel, c) ==
    IF channel \notin DOMAIN clients
    THEN [clients |-> clients, done |-> cl[c].done, returned |-> TRUE]
    ELSE LET subs == clients[channel] \ {c} IN
         IF Closed(cl[c].done) = "panic"
         THEN [clients |-> MapSet(clients, channel, subs), done |-> "closed",
               returned |-> FALSE]
         ELSE [clients |-> IF subs = {} THEN MapDelete(clients, channel)
                           ELSE MapSet(clients, channel, subs),
               done |-> "closed", returned |-> TRUE]

\* a call of Unsubscribe; the history keeps what the call found and did
\* and, for a subscriber it found registered on the channel and returned
\* for, the last event dispatched before it
Unsubscribe(channel, c, maxUnsub) ==
    /\ HubUnlocked
    /\ c <= hh.made
    /\ hh.nunsub < maxUnsub
    /\ LET r == UnsubscribeOf(channel, c) IN
       /\ clients' = r.clients
       /\ cl' = [cl EXCEPT ![c].done = r.done]
       /\ hh' = [hh EXCEPT !.nunsub = @ + 1,
                           !.unsub = [c |-> c, channel |-> channel,
                                      member |-> c \in Subs(channel),
                                      closes |-> channel \in DOMAIN clients,
                                      wasOpen |-> cl[c].done = "open",
                                      returned |-> r.returned],
                           !.gone[c] = IF r.returned /\ c \in Subs(channel)
                                       THEN hh.fan.ev.id ELSE @]
    /\ UNCHANGED <<incoming, run, pub, srvVars>>

\* h.incoming <- ev blocks while the channel holds IncomingCap events
SendBlocks(n) == n >= IncomingCap

\* the event a Publish call sends: the next in publication order
NextEvent(channel) == [id |-> Len(hh.pubs) + 1, channel |-> channel]

\* Publish(channel, event, payload): the event is sent to h.incoming at once
\* when there is room, and the call waits when there is none
Publish(channel, maxPub) ==
    /\ pub.pc = "idle"
    /\ Len(hh.pubs) < maxPub
    /\ IF SendBlocks(Len(incoming))
       THEN /\ pub' = [pc |-> "blocked", channel |-> channel, waited |-> TRUE]
            /\ UNCHANGED <<incoming, hh>>
       ELSE /\ incoming' = Append(incoming, NextEvent(channel))
            /\ hh' = [hh EXCEPT !.pubs = Append(@, NextEvent(channel))]
            /\ pub' = pub
    /\ UNCHANGED <<clients, cl, run, srvVars>>

SubscribersOfAll(ev) == UNION {clients[c] : c \in DOMAIN clients}

\* subs := h.clients[ev.Channel]
SubscribersOf(ev) == Subs(ev.channel)

DequeueLast(q) == [ev |-> q[Len(q)], rest |-> SubSeq(q, 1, Len(q) - 1)]

\* for ev := range h.incoming
Dequeue(q) == [ev |-> Head(q), rest |-> Tail(q)]

\* run: the dispatcher receives the next event and takes the read lock; the
\* receive makes room, and with it the send of a waiting Publish completes
RunTake ==
    /\ run.pc = "range" /\ incoming # <<>>
    /\ LET d == Dequeue(incoming)
           fan == [NoFan EXCEPT !.ev = d.ev, !.subs = SubscribersOf(d.ev)]
       IN  /\ run' = [pc |-> "fan", ev |-> d.ev, pending |-> SubscribersOf(d.ev)]
           /\ IF pub.pc = "blocked"
              THEN /\ incoming' = Append(d.rest, NextEvent(pub.channel))
                   /\ hh' = [hh EXCEPT !.fan = fan,
                                       !.pubs = Append(@, NextEvent(pub.channel))]
                   /\ pub' = [NoPublish EXCEPT !.waited = TRUE]
              ELSE /\ incoming' = d.rest
                   /\ hh' = [hh EXCEPT !.fan = fan]
                   /\ pub' = pub
    /\ UNCHANGED <<clients, cl, srvVars>>

RunOfferBlocking(c) ==
    /\ run.pc = "fan" /\ c \in run.pending
    /\ Len(cl[c].ch) < ClientCap
    /\ run' = [run EXCEPT !.pending = @ \ {c}]
    /\ cl' = [cl EXCEPT ![c].ch = Append(@, run.ev)]
    /\ hh' = [hh EXCEPT !.fan.offered = Append(@, c),
                        !.fan.len[c] = Len(cl[c].ch),
                        !.fan.sent = @ \cup {c}]
    /\ UNCHANGED <<clients, incoming, pub, srvVars>>

\* run: select { case c.ch <- ev: default: } for one subscriber of the range
RunOffer(c) ==
    /\ run.pc = "fan" /\ c \in run.pending
    /\ run' = [run EXCEPT !.pending = @ \ {c}]
    /\ IF Len(cl[c].ch) < ClientCap
       THEN /\ cl' = [cl EXCEPT ![c].ch = Append(@, run.ev)]
            /\ hh' = [hh EXCEPT !.fan.offered = Append(@, c),
                                !.fan.len[c] = Len(cl[c].ch),
                                !.fan.sent = @ \cup {c}]
       ELSE /\ cl' = cl
            /\ hh' = [hh EXCEPT !.fan.offered = Append(@, c),
                                !.fan.len[c] = Len(cl[c].ch),
                                !.fan.dropped = @ \cup {c},
                                !.drops[c] = @ \cup {run.ev.id}]
    /\ UNCHANGED <<clients, incoming, pub, srvVars>>

\* run: the range over subs is over, h.mu.RUnlock()
RunUnlock ==
    /\ run.pc = "fan" /\ run.pending = {}
    /\ run' = [pc |-> "range", ev |-> NoEvent, pending |-> {}]
    /\ hh' = [hh EXCEPT !.fan.done = TRUE]
    /\ UNCHANGED <<clients, incoming, cl, pub, srvVars>>

\* a subscriber receives from c.Ch()
ClientRecv(c) ==
    /\ c <= hh.made
    /\ hh.nrecv < MaxRecv
    /\ cl[c].ch # <<>>
    /\ cl' = [cl EXCEPT ![c].ch = Tail(@)]
    /\ hh' = [hh EXCEPT !.nrecv = @ + 1, !.recv[c] = Append(@, Head(cl[c].ch))]
    /\ UNCHANGED <<clients, incoming, run, pub, srvVars>>

\* ------------------------------------------------- threads and processes
Callers == 1..NTasks
\* the goroutine a caller's Stream starts
G(t) == NTasks + t
Goroutines == {G(t) : t \in Callers}
\* the hot-reload goroutine of EnableHotReload
Watcher == 2 * NTasks + 1
Threads == Callers \cup Goroutines \cup {Watcher}

NoCall ==
    [pc |-> "idle", op |-> "none", w |-> Nil, req |-> 0, attempt |-> 0,
     err |-> "nil", res |-> "none", ret |-> "none", n |-> 0,
     headersSent |-> FALSE, log |-> <<>>, allDead |-> FALSE,
     sawDraining |-> FALSE, out |-> <<>>, hdr |-> NoLen]

\* cmd, stdin, stdout of a process just started
NewChild == [alive |-> TRUE, stdin |-> <<>>, stdout |-> <<>>]

\* no Server.Dispatch yet
NoSrv == [req |-> 0, pool |-> "none", other |-> [workers |-> <<>>, next |-> 0],
          otherWk |-> <<>>, otherUsable |-> FALSE]

InitReq ==
    /\ child = [w \in WorkerIds |-> NewChild]
    /\ th = [t \in Threads |-> NoCall]
    /\ hist = [succ |-> [w \in WorkerIds |-> 0],
               succAll |-> [w \in WorkerIds |-> 0],
               drainCalled |-> FALSE, drained |-> {}, undrained |-> {},
               removed |-> {}]
    /\ nreq = 0
    /\ nenv = 0
    /\ NewSSEHub
    /\ srv = NoSrv

\* ----------------------------------------------- pool operations (SpecPool)
Pre == [workers |-> workers, next |-> next, wk |-> wk, created |-> created]

NoOp == [op |-> "none", arg |-> 0, failAt |-> 0, ret |-> Nil, err |-> "nil",
         calls |-> 0, examined |-> 0, pre |-> Pre, run |-> <<>>]

\* the NextWorker calls that follow one another with no other operation in
\* between, each with the cursor it found and the worker it returned: the
\* last Len(workers) of them
RunWith(c, w) ==
    LET all == Append(IF last.op = "NextWorker" THEN last.run ELSE <<>>,
                      [c |-> c, w |-> w])
    IN  IF Len(all) > Len(workers) /\ Len(all) > 1 THEN Tail(all) ELSE all

\* NewPool(count, ...): count workers from NewWorker, cursor 0
InitPool ==
    /\ wk = [w \in WorkerIds |-> NewWorker]
    /\ \E count \in 0..MaxPool :
          /\ workers = [i \in 1..count |-> i]
          /\ created = count
    /\ next = 0
    /\ last = NoOp
    /\ slowPool = [workers |-> <<>>, next |-> 0]
    /\ InitReq

PoolNextWorker ==
    LET r == NextWorker IN
    /\ next' = r.next
    /\ last' = [NoOp EXCEPT !.op = "NextWorker", !.ret = r.w,
                            !.examined = r.examined, !.run = RunWith(next, r.w)]
    /\ UNCHANGED <<hubVars, slowPool, srv, workers, wk, created, reqVars>>

PoolDrainAll ==
    /\ wk' = DrainAll
    /\ last' = [NoOp EXCEPT !.op = "DrainAll"]
    /\ UNCHANGED <<hubVars, slowPool, srv, workers, next, created, reqVars>>

PoolScaleTo ==
    \E newSize \in 0..MaxPool, failAt \in 0..MaxPool :
        LET r == ScaleTo(newSize, failAt) IN
        /\ created + (newSize - Len(workers)) <= MaxIds
        /\ failAt <= newSize - Len(workers) \/ failAt = 0
        /\ workers' = r.workers
        /\ next' = r.next
        /\ wk' = r.wk
        /\ created' = r.created
        /\ last' = [NoOp EXCEPT !.op = "ScaleTo", !.arg = newSize,
                                !.failAt = failAt, !.err = r.err,
                                !.calls = r.calls]
        /\ UNCHANGED <<hubVars, slowPool, srv, reqVars>>

\* a worker of the pool is marked dead (Server.markAllWorkersDead marks each
\* in turn; the tests mark single workers)
PoolMarkDead ==
    \E i \in 1..Len(workers) :
        /\ wk' = [wk EXCEPT ![workers[i]] = markDead(@)]
        /\ last' = [NoOp EXCEPT !.op = "markDead", !.arg = workers[i]]
        /\ UNCHANGED <<hubVars, slowPool, srv, workers, next, created, reqVars>>

NextPool == PoolNextWorker \/ PoolDrainAll \/ PoolScaleTo \/ PoolMarkDead

SpecPool == InitPool /\ [][NextPool]_vars

\* ============================================== requests (Spec, SpecSeq)
\* NewPool(NWorkers, MaxRequests, requestTimeout) with requestTimeout > 0:
\* a timer may fire whenever a call waits for the child.
Init ==
    /\ wk = [w \in WorkerIds |-> NewWorker]
    /\ workers = [i \in 1..NWorkers |-> i]
    /\ created = NWorkers
    /\ next = 0
    /\ last = NoOp
    /\ slowPool = [workers |-> <<>>, next |-> 0]
    /\ InitReq

\* ---------------------------------------------------------------- errors
\* the marker substrings isBrokenPipe looks for, as they occur in err.Error()
ErrText(e) ==
    CASE e = "EPIPE" -> {"write |1:", "broken pipe"}
      [] e = "io.EOF" -> {"EOF"}
      [] e = "io.ErrUnexpectedEOF" -> {"unexpected EOF"}
      [] OTHER -> {}

isBrokenPipeOnlyEPIPE(e) == e = "EPIPE"

isBrokenPipe(e) ==
    /\ e # "nil"
    /\ \/ e = "io.EOF"
       \/ e = "io.ErrUnexpectedEOF"
       \/ "broken pipe" \in ErrText(e)
       \/ "write |1:" \in ErrText(e)
       \/ "read |0:" \in ErrText(e)

\* ----------------------------------------------------- the child process
\* what a child answers to a unary request: a response, or bytes that do not
\* decode
UnaryReplies == {<<"resp">>, <<"junk">>}

\* what a child answers to a streamed request
StreamScripts ==
    {<<"headers", "chunk", "end">>, <<"chunk", "headers", "end">>, <<"error">>,
     <<"bogus", "end">>}

\* the lengths a child declares in the 4-byte header of a frame
FrameLens == {0, SomeLen, MaxFrameLen, MaxFrameLen + 1}

\* the frames of a reply: each is a header declaring a length and a payload
\* of a type; the k-th declares length L, the others SomeLen
Frames(rq, script, k, L) ==
    [i \in 1..Len(script) |->
        [req |-> rq.req, type |-> script[i], len |-> IF i = k THEN L ELSE SomeLen]]

\* the child reads one request and writes its answer, declaring lengths of lens
ChildRespond(w, lens) ==
    /\ child[w].alive /\ child[w].stdin # <<>>
    /\ LET rq == Head(child[w].stdin) IN
       \E script \in (IF rq.op = "handle" THEN UnaryReplies ELSE StreamScripts) :
          \E k \in 1..Len(script), L \in lens :
             child' = [child EXCEPT ![w].stdin = Tail(@),
                                    ![w].stdout = @ \o Frames(rq, script, k, L)]
    /\ UNCHANGED <<hubVars, slowPool, srv, workers, next, wk, created, last, th, hist, nreq, nenv>>

\* the child exits on its own: what it wrote stays readable, then EOF
ChildExit(w) ==
    /\ child[w].alive
    /\ child' = [child EXCEPT ![w].alive = FALSE, ![w].stdin = <<>>]
    /\ UNCHANGED <<hubVars, slowPool, srv, workers, next, wk, created, last, th, hist, nreq, nenv>>

KillSkipped(c) == c

\* cmd.Process.Kill(); cmd.Process.Wait()
Killed(c) == [c EXCEPT !.alive = FALSE, !.stdin = <<>>]

\* the requests written to worker w's process whose answer has not been
\* read to its end
InTransit(w) ==
    {child[w].stdin[i].req : i \in 1..Len(child[w].stdin)}
        \cup {child[w].stdout[i].req : i \in 1..Len(child[w].stdout)}

\* ------------------------------------------------------- steps of a call
Goto(t, p) == [th[t] EXCEPT !.pc = p]

Logged(tk, e) == [tk EXCEPT !.log = Append(@, e)]

\* a call returns to its caller
Returned(tk) ==
    [NoCall EXCEPT !.res = IF tk.err = "nil" THEN "ok" ELSE tk.err,
                   !.op = tk.op, !.w = tk.w, !.log = tk.log,
                   !.headersSent = tk.headersSent, !.out = tk.out,
                   !.allDead = tk.allDead,
                   !.sawDraining = tk.sawDraining]

\* the history when thread t's call returns: a Handle that returns a response
\* is one more successful call of its worker
HistReturn(t) ==
    IF th[t].op = "handle" /\ th[t].err = "nil"
    THEN [hist EXCEPT !.succ[th[t].w] = @ + 1, !.succAll[th[t].w] = @ + 1]
    ELSE hist

\* pool.Dispatch: NextWorker, then Handle (or, for a streamed request, Stream)
\* on the worker it returned. The callers are interchangeable: the first call
\* of a behaviour is caller 1's.
Dispatch(t, op, maxReqs) ==
    LET r == NextWorker
        call == [NoCall EXCEPT !.op = op, !.req = nreq + 1,
                    !.allDead = /\ Len(workers) > 0
                                /\ \A i \in 1..Len(workers) : isDead(workers[i])]
    IN  /\ th[t].pc = "idle" /\ th[G(t)].pc = "idle"
        /\ nreq < maxReqs
        /\ (t = 1 \/ nreq > 0)
        /\ nreq' = nreq + 1
        /\ next' = r.next
        /\ th' = [th EXCEPT ![t] =
                    IF r.w = Nil THEN [call EXCEPT !.res = "ErrNoWorkers"]
                    ELSE [call EXCEPT !.pc = "isDead", !.w = r.w]]
        /\ UNCHANGED <<hubVars, slowPool, srv, workers, wk, created, last, child, hist, nenv>>

\* Handle / Stream: if w.isDead() { return ErrWorkerDead }
AdmitIsDead(t) ==
    /\ th[t].pc = "isDead"
    /\ th' = [th EXCEPT ![t] =
                IF isDead(th[t].w) THEN Returned([th[t] EXCEPT !.err = "ErrWorkerDead"])
                ELSE Goto(t, "isDraining")]
    /\ UNCHANGED <<hubVars, slowPool, srv, workers, next, wk, created, last, child, hist, nreq, nenv>>

\* what the call returns for a draining worker: Handle ErrWorkerDraining,
\* Stream ErrWorkerDead
DrainingError(op) ==
    IF op = "handle" THEN "ErrWorkerDraining" ELSE "ErrWorkerDead"

\* Handle / Stream: the isDraining() test
AdmitIsDraining(t) ==
    /\ th[t].pc = "isDraining"
    /\ th' = [th EXCEPT ![t] =
                IF isDraining(th[t].w)
                THEN Returned([th[t] EXCEPT !.err = DrainingError(th[t].op),
                                            !.sawDraining = TRUE])
                ELSE Goto(t, "incrInFlight")]
    /\ UNCHANGED <<hubVars, slowPool, srv, workers, next, wk, created, last, child, hist, nreq, nenv>>

incrInFlight(t) ==
    /\ th[t].pc = "incrInFlight"
    /\ wk' = [wk EXCEPT ![th[t].w].inFlight = @ + 1]
    /\ th' = [th EXCEPT ![t] = Goto(t, "setBusy")]
    /\ UNCHANGED <<hubVars, slowPool, srv, workers, next, created, last, child, hist, nreq, nenv>>

\* the history when setState(s) overwrites the state of worker w: a worker
\* that was Draining and is given another state than Dead is no longer
\* draining
Overwritten(h, w) ==
    IF wk[w].state = WorkerDraining THEN [h EXCEPT !.undrained = @ \cup {w}] ELSE h

\* setState(WorkerBusy); Handle enters its loop, Stream starts its goroutine
SetBusy(t) ==
    /\ th[t].pc = "setBusy"
    /\ wk' = [wk EXCEPT ![th[t].w].state = WorkerBusy]
    /\ th' = IF th[t].op = "handle"
             THEN [th EXCEPT ![t] = Goto(t, "loop")]
             ELSE [th EXCEPT ![t] = Goto(t, "wait"),
                             ![G(t)] = [NoCall EXCEPT !.pc = "si_lock",
                                           !.op = "stream", !.w = th[t].w,
                                           !.req = th[t].req]]
    /\ hist' = Overwritten(hist, th[t].w)
    /\ UNCHANGED <<hubVars, slowPool, srv, workers, next, created, last, child, nreq, nenv>>

Attempts == 2

LoopDoneAfterThree(attempt) == attempt >= 3

\* for attempt := 0; attempt < 2; attempt++
LoopDone(attempt) == attempt >= Attempts

\* the body of Handle's loop begins: if w.isDead() { w.restart() }, then
\* handleRequest
HandleLoop(t) ==
    /\ th[t].pc = "loop"
    /\ th' = [th EXCEPT ![t] =
                IF isDead(th[t].w) THEN Goto(t, "restart") ELSE Goto(t, "hr_lock")]
    /\ UNCHANGED <<hubVars, slowPool, srv, workers, next, wk, created, last, child, hist, nreq, nenv>>

\* where a thread goes on after restart returned nil / an error
AfterRestart(t) == IF t \in Callers THEN "hr_lock" ELSE "si_write"
AfterRestartFailed(t) == IF t \in Callers THEN "decr" ELSE "g_unlock"

\* restart: w.mu.Lock(); close the pipes, kill and reap the process, start a
\* new one (which may fail: the error is returned and mu unlocked)
RestartLock(t) ==
    /\ th[t].pc = "restart"
    /\ wk[th[t].w].mu = 0
    /\ \/ /\ child' = [child EXCEPT ![th[t].w] = NewChild]
          /\ wk' = [wk EXCEPT ![th[t].w].mu = t]
          /\ th' = [th EXCEPT ![t] = Logged(Goto(t, "r_dead"), "restart")]
       \/ /\ child' = [child EXCEPT ![th[t].w] =
                          [alive |-> FALSE, stdin |-> <<>>, stdout |-> <<>>]]
          /\ wk' = wk
          /\ th' = [th EXCEPT ![t] =
                      Logged([th[t] EXCEPT !.pc = AfterRestartFailed(t),
                                           !.err = "spawn"], "spawn")]
    /\ UNCHANGED <<hubVars, slowPool, srv, workers, next, created, last, hist, nreq, nenv>>

\* restart: w.dead = false
RestartDead(t) ==
    /\ th[t].pc = "r_dead"
    /\ wk' = [wk EXCEPT ![th[t].w].dead = FALSE]
    /\ th' = [th EXCEPT ![t] = Goto(t, "r_state")]
    /\ UNCHANGED <<hubVars, slowPool, srv, workers, next, created, last, child, hist, nreq, nenv>>

\* restart: w.state = WorkerIdle; w.inFlight = 0
RestartState(t) ==
    /\ th[t].pc = "r_state"
    /\ wk' = [wk EXCEPT ![th[t].w].state = WorkerIdle, ![th[t].w].inFlight = 0]
    /\ th' = [th EXCEPT ![t] = Goto(t, "r_count")]
    /\ UNCHANGED <<hubVars, slowPool, srv, workers, next, created, last, child, hist, nreq, nenv>>

\* restart: requestCount = 0; return nil (the deferred w.mu.Unlock())
RestartCount(t) ==
    /\ th[t].pc = "r_count"
    /\ wk' = [wk EXCEPT ![th[t].w].requestCount = 0, ![th[t].w].mu = 0]
    /\ th' = [th EXCEPT ![t] = Goto(t, AfterRestart(t))]
    /\ hist' = [hist EXCEPT !.succ[th[t].w] = 0]
    /\ UNCHANGED <<hubVars, slowPool, srv, workers, next, created, last, child, nreq, nenv>>

\* Handle after handleRequest returned e: count a success, mark the worker
\* dead and go round again on a broken pipe, return any other error
AfterHandleRequest(tk, e) ==
    IF e = "nil" THEN Logged([tk EXCEPT !.pc = "count"], "ok")
    ELSE IF isBrokenPipe(e)
         THEN Logged([tk EXCEPT !.pc = "markDead", !.ret = "continue"], "bp")
         ELSE Logged([tk EXCEPT !.pc = "decr", !.err = e], "other")

\* handleRequest: w.mu.Lock(); write the header and the body to stdin
HrWrite(t) ==
    /\ th[t].pc = "hr_lock"
    /\ wk[th[t].w].mu = 0
    /\ IF child[th[t].w].alive
       THEN /\ child' = [child EXCEPT ![th[t].w].stdin =
                            Append(@, [req |-> th[t].req, op |-> "handle"])]
            /\ wk' = [wk EXCEPT ![th[t].w].mu = t]
            /\ th' = [th EXCEPT ![t] =
                        Logged([th[t] EXCEPT !.pc = "hr_read", !.hdr = NoLen], "write")]
       ELSE /\ th' = [th EXCEPT ![t] =
                        AfterHandleRequest(Logged([th[t] EXCEPT !.hdr = NoLen], "write"),
                                           "EPIPE")]
            /\ UNCHANGED <<child, wk>>
    /\ UNCHANGED <<hubVars, slowPool, srv, workers, next, created, last, hist, nreq, nenv>>

LenRefusedFrom(L) == L = 0 \/ L >= MaxFrameLen

\* respLen == 0 || respLen > 10*1024*1024
LenRefused(L) == L = 0 \/ L > MaxFrameLen

\* what is left to read once the header of the first frame was read and its
\* length refused: the payload, if the frame has one, stays where it is
\* (its first bytes, read as a header, declare a length that is refused too)
HeaderOnly(out) ==
    IF Head(out).len = 0 THEN Tail(out)
    ELSE <<[Head(out) EXCEPT !.type = "payload", !.len = MaxFrameLen + 1]>> \o Tail(out)

\* json.Unmarshal of a frame into a ResponsePayload: a headers frame carries
\* lists where the response has strings
UnaryDecode(f) == IF f.type \in {"junk", "headers"} THEN "json" ELSE "nil"

\* handleRequest: the reader goroutine delivers a frame or a read error and
\* handleRequest returns it (unlocking mu)
HrRead(t) ==
    /\ th[t].pc = "hr_read"
    /\ LET w == th[t].w IN
       \/ /\ child[w].stdout # <<>>
          /\ LET f == Head(child[w].stdout)
                 tk == [th[t] EXCEPT !.hdr = f.len]
             IN  IF LenRefused(f.len)
                 THEN /\ child' = [child EXCEPT ![w].stdout = HeaderOnly(@)]
                      /\ th' = [th EXCEPT ![t] =
                                  AfterHandleRequest(tk, "io.ErrUnexpectedEOF")]
                 ELSE /\ child' = [child EXCEPT ![w].stdout = Tail(@)]
                      /\ th' = [th EXCEPT ![t] =
                                  AfterHandleRequest(tk, UnaryDecode(f))]
       \/ /\ child[w].stdout = <<>> /\ ~child[w].alive
          /\ child' = child
          /\ th' = [th EXCEPT ![t] = AfterHandleRequest(th[t], "io.EOF")]
    /\ wk' = [wk EXCEPT ![th[t].w].mu = 0]
    /\ UNCHANGED <<hubVars, slowPool, srv, workers, next, created, last, hist, nreq, nenv>>

\* handleRequest: case <-time.After(w.requestTimeout): w.markDead() ...
HrTimeout(t) ==
    /\ th[t].pc = "hr_read"
    /\ th' = [th EXCEPT ![t] = [th[t] EXCEPT !.pc = "markDead", !.ret = "hr_kill"]]
    /\ UNCHANGED <<hubVars, slowPool, srv, workers, next, wk, created, last, child, hist, nreq, nenv>>

\* handleRequest: ... Kill, Wait, return the timeout error (unlocking mu)
HrKill(t) ==
    /\ th[t].pc = "hr_kill"
    /\ child' = [child EXCEPT ![th[t].w] = Killed(@)]
    /\ wk' = [wk EXCEPT ![th[t].w].mu = 0]
    /\ th' = [th EXCEPT ![t] = AfterHandleRequest(th[t], "timeout")]
    /\ UNCHANGED <<hubVars, slowPool, srv, workers, next, created, last, hist, nreq, nenv>>

RecycleDueAfter(n) == MaxRequests > 0 /\ n > MaxRequests

\* w.maxRequests > 0 && int(n) >= w.maxRequests
RecycleDue(n) == MaxRequests > 0 /\ n >= MaxRequests

\* n := atomic.AddUint64(&w.requestCount, 1), and whether to recycle
HandleCount(t) ==
    /\ th[t].pc = "count"
    /\ wk' = [wk EXCEPT ![th[t].w].requestCount = @ + 1]
    /\ th' = [th EXCEPT ![t] =
                IF RecycleDue(wk[th[t].w].requestCount + 1)
                THEN [th[t] EXCEPT !.pc = "markDead", !.ret = "decr"]
                ELSE Goto(t, "decr")]
    /\ UNCHANGED <<hubVars, slowPool, srv, workers, next, created, last, child, hist, nreq, nenv>>

\* markDead's first critical section
MarkDead1(t) ==
    /\ th[t].pc = "markDead"
    /\ wk' = [wk EXCEPT ![th[t].w] = markDeadFlag(@)]
    /\ th' = [th EXCEPT ![t] = Goto(t, "markDead2")]
    /\ UNCHANGED <<hubVars, slowPool, srv, workers, next, created, last, child, hist, nreq, nenv>>

\* markAllWorkersDead ranges over the fast pool's workers, then the slow
\* pool's
AllWorkers == workers \o slowPool.workers

\* where the caller of markDead goes on
AfterMarkDead(t) ==
    LET tk == th[t] IN
    CASE tk.ret = "continue" ->
            \* continue: attempt++, and after the last attempt the loop ends
            \* and Handle returns io.ErrUnexpectedEOF
            IF LoopDone(tk.attempt + 1)
            THEN [tk EXCEPT !.pc = "decr", !.attempt = @ + 1,
                            !.err = "io.ErrUnexpectedEOF"]
            ELSE [tk EXCEPT !.pc = "loop", !.attempt = @ + 1]
      [] tk.ret = "return" -> Returned(tk)
      [] tk.ret = "w_next" ->
            IF tk.n < Len(AllWorkers)
            THEN [tk EXCEPT !.pc = "markDead", !.n = @ + 1, !.w = AllWorkers[tk.n + 1]]
            ELSE NoCall
      [] OTHER -> [tk EXCEPT !.pc = tk.ret]

\* markDead's second critical section, and the return to its caller
MarkDead2(t) ==
    /\ th[t].pc = "markDead2"
    /\ wk' = [wk EXCEPT ![th[t].w] = markDeadState(@)]
    /\ th' = [th EXCEPT ![t] = AfterMarkDead(t)]
    /\ hist' = IF th[t].ret = "return" THEN HistReturn(t) ELSE hist
    /\ UNCHANGED <<hubVars, slowPool, srv, workers, next, created, last, child, nreq, nenv>>

\* the deferred function of Handle and Stream: w.decrInFlight()
DeferDecr(t) ==
    /\ th[t].pc = "decr"
    /\ wk' = [wk EXCEPT ![th[t].w].inFlight = IF @ > 0 THEN @ - 1 ELSE @]
    /\ th' = [th EXCEPT ![t] = Goto(t, "getInFlight")]
    /\ UNCHANGED <<hubVars, slowPool, srv, workers, next, created, last, child, hist, nreq, nenv>>

\* deferred: w.getInFlight() == 0 && ...
DeferGetInFlight(t) ==
    /\ th[t].pc = "getInFlight"
    /\ th' = [th EXCEPT ![t] =
                IF wk[th[t].w].inFlight = 0 THEN Goto(t, "d_isDraining")
                ELSE Goto(t, "d_isDead")]
    /\ UNCHANGED <<hubVars, slowPool, srv, workers, next, wk, created, last, child, hist, nreq, nenv>>

\* deferred: ... && w.isDraining() { w.markDead() }
DeferIsDraining(t) ==
    /\ th[t].pc = "d_isDraining"
    /\ th' = [th EXCEPT ![t] =
                IF isDraining(th[t].w)
                THEN [th[t] EXCEPT !.pc = "markDead", !.ret = "return"]
                ELSE Goto(t, "d_isDead")]
    /\ UNCHANGED <<hubVars, slowPool, srv, workers, next, wk, created, last, child, hist, nreq, nenv>>

\* deferred: else if !w.isDead() { ... }; a dead worker is left alone and
\* the call returns
DeferIsDead(t) ==
    /\ th[t].pc = "d_isDead"
    /\ IF ~isDead(th[t].w)
       THEN /\ th' = [th EXCEPT ![t] = Goto(t, "setIdle")]
            /\ hist' = hist
       ELSE /\ th' = [th EXCEPT ![t] = Returned(th[t])]
            /\ hist' = HistReturn(t)
    /\ UNCHANGED <<hubVars, slowPool, srv, workers, next, wk, created, last, child, nreq, nenv>>

\* deferred: w.setState(WorkerIdle), and the call returns
DeferSetIdle(t) ==
    /\ th[t].pc = "setIdle"
    /\ wk' = [wk EXCEPT ![th[t].w].state = WorkerIdle]
    /\ th' = [th EXCEPT ![t] = Returned(th[t])]
    /\ hist' = Overwritten(HistReturn(t), th[t].w)
    /\ UNCHANGED <<hubVars, slowPool, srv, workers, next, created, last, child, nreq, nenv>>

\* ------------------------------------------------------------------ Stream
\* Stream: case res := <-resCh
StreamWait(t) ==
    /\ th[t].pc = "wait"
    /\ th[G(t)].pc = "g_done"
    /\ th' = [th EXCEPT ![t] = [th[t] EXCEPT !.pc = "decr", !.err = th[G(t)].err,
                                             !.headersSent = th[G(t)].headersSent,
                                             !.out = th[G(t)].out],
                        ![G(t)] = NoCall]
    /\ UNCHANGED <<hubVars, slowPool, srv, workers, next, wk, created, last, child, hist, nreq, nenv>>

\* Stream: case <-time.After(w.requestTimeout): w.markDead() ...
StreamTimeout(t) ==
    /\ th[t].pc = "wait"
    /\ th' = [th EXCEPT ![t] = [th[t] EXCEPT !.pc = "markDead", !.ret = "s_kill"]]
    /\ UNCHANGED <<hubVars, slowPool, srv, workers, next, wk, created, last, child, hist, nreq, nenv>>

\* Stream: ... Kill, Wait, return the timeout error; nobody receives what
\* the goroutine sends later
StreamKill(t) ==
    /\ th[t].pc = "s_kill"
    /\ child' = [child EXCEPT ![th[t].w] = Killed(@)]
    /\ th' = [th EXCEPT ![t] = [th[t] EXCEPT !.pc = "decr", !.err = "timeout"],
                        ![G(t)] = IF th[G(t)].pc = "g_done" THEN NoCall ELSE @]
    /\ UNCHANGED <<hubVars, slowPool, srv, workers, next, wk, created, last, hist, nreq, nenv>>

\* streamInternal: w.mu.Lock()
SiLock(g) ==
    /\ th[g].pc = "si_lock"
    /\ wk[th[g].w].mu = 0
    /\ wk' = [wk EXCEPT ![th[g].w].mu = g]
    /\ th' = [th EXCEPT ![g] = Goto(g, "si_isDead")]
    /\ UNCHANGED <<hubVars, slowPool, srv, workers, next, created, last, child, hist, nreq, nenv>>

\* streamInternal: if w.isDead() { w.restart() }, with mu held
SiIsDead(g) ==
    /\ th[g].pc = "si_isDead"
    /\ th' = [th EXCEPT ![g] =
                IF isDead(th[g].w) THEN Goto(g, "restart") ELSE Goto(g, "si_write")]
    /\ UNCHANGED <<hubVars, slowPool, srv, workers, next, wk, created, last, child, hist, nreq, nenv>>

\* streamInternal: write the header and the body to stdin
SiWrite(g) ==
    /\ th[g].pc = "si_write"
    /\ IF child[th[g].w].alive
       THEN /\ child' = [child EXCEPT ![th[g].w].stdin =
                            Append(@, [req |-> th[g].req, op |-> "stream"])]
            /\ th' = [th EXCEPT ![g] =
                        Logged([th[g] EXCEPT !.pc = "si_read", !.hdr = NoLen], "write")]
       ELSE /\ child' = child
            /\ th' = [th EXCEPT ![g] =
                        Logged([th[g] EXCEPT !.pc = "g_unlock", !.err = "EPIPE"],
                               "write")]
    /\ UNCHANGED <<hubVars, slowPool, srv, workers, next, wk, created, last, hist, nreq, nenv>>

\* case "chunk": if !headersSent { rw.WriteHeader(statusCode) }
WithStatus(tk) == IF tk.headersSent THEN tk.out ELSE Append(tk.out, "status")

\* streamInternal's switch on a decoded frame, the sink accepting what is
\* written to it: what the sink is given is the status line ("status", a
\* call of rw.WriteHeader) and body bytes ("body", a call of rw.Write)
OnFrame(tk, f) ==
    CASE f.type = "junk" ->
            [tk EXCEPT !.pc = "markDead", !.ret = "g_unlock", !.err = "json"]
      [] f.type = "headers" ->
            [tk EXCEPT !.headersSent = TRUE, !.out = Append(@, "status")]
      [] f.type = "chunk" ->
            [tk EXCEPT !.headersSent = TRUE,
                       !.out = WithStatus(tk) \o <<"body">>]
      [] f.type = "end" -> [tk EXCEPT !.pc = "g_unlock", !.err = "nil"]
      [] f.type = "error" -> [tk EXCEPT !.pc = "g_unlock", !.err = "stream error"]
      [] OTHER -> [tk EXCEPT !.pc = "g_unlock", !.err = "unknown frame"]

\* streamInternal: read one frame and act on it; a read at the end of the
\* stream marks the worker dead
SiRead(g) ==
    /\ th[g].pc = "si_read"
    /\ LET w == th[g].w IN
       \/ /\ child[w].stdout # <<>>
          /\ LET f == Head(child[w].stdout)
                 tk == [th[g] EXCEPT !.hdr = f.len]
             IN  IF LenRefused(f.len)
                 THEN /\ child' = [child EXCEPT ![w].stdout = HeaderOnly(@)]
                      /\ th' = [th EXCEPT ![g] =
                                  [tk EXCEPT !.pc = "markDead", !.ret = "g_unlock",
                                             !.err = "io.ErrUnexpectedEOF"]]
                 ELSE /\ child' = [child EXCEPT ![w].stdout = Tail(@)]
                      /\ th' = [th EXCEPT ![g] = OnFrame(tk, f)]
       \/ /\ child[w].stdout = <<>> /\ ~child[w].alive
          /\ child' = child
          /\ th' = [th EXCEPT ![g] = [th[g] EXCEPT !.pc = "markDead",
                                         !.ret = "g_unlock", !.err = "io.EOF",
                                         !.hdr = NoLen]]
    /\ UNCHANGED <<hubVars, slowPool, srv, workers, next, wk, created, last, hist, nreq, nenv>>

\* streamInternal: rw.Write of a chunk's data fails; the error is returned
SiSinkFails(g) ==
    /\ th[g].pc = "si_read"
    /\ LET w == th[g].w IN
       /\ child[w].stdout # <<>>
       /\ Head(child[w].stdout).type = "chunk"
       /\ ~LenRefused(Head(child[w].stdout).len)
       /\ child' = [child EXCEPT ![w].stdout = Tail(@)]
       /\ th' = [th EXCEPT ![g] = [th[g] EXCEPT !.pc = "g_unlock", !.err = "sink",
                                                !.hdr = Head(child[w].stdout).len,
                                                !.headersSent = TRUE,
                                                !.out = WithStatus(th[g])]]
    /\ UNCHANGED <<hubVars, slowPool, srv, workers, next, wk, created, last, hist, nreq, nenv>>

\* streamInternal returns: the deferred w.mu.Unlock(), and the goroutine
\* sends the result to resCh
SiReturn(g) ==
    /\ th[g].pc = "g_unlock"
    /\ wk' = [wk EXCEPT ![th[g].w].mu = 0]
    /\ th' = [th EXCEPT ![g] =
                IF th[g - NTasks].pc \in {"wait", "markDead", "markDead2", "s_kill"}
                   /\ th[g - NTasks].req = th[g].req
                THEN Goto(g, "g_done") ELSE NoCall]
    /\ UNCHANGED <<hubVars, slowPool, srv, workers, next, created, last, child, hist, nreq, nenv>>

\* ------------------------------------------------- DrainAll and hot reload
\* WorkerPool.DrainAll, called while requests run
DrainAllCall(maxEnv) ==
    /\ nenv < maxEnv
    /\ nenv' = nenv + 1
    /\ wk' = DrainAll
    /\ hist' = [hist EXCEPT !.drainCalled = TRUE,
                   !.drained = {w \in Range(workers) : ~isDead(w)}]
    /\ UNCHANGED <<hubVars, slowPool, srv, workers, next, created, last, child, th, nreq>>

\* the watcher goroutine sees a file change: markAllWorkersDead begins
Reload(maxEnv) ==
    /\ th[Watcher].pc = "idle"
    /\ nenv < maxEnv
    /\ Len(AllWorkers) > 0
    /\ nenv' = nenv + 1
    /\ th' = [th EXCEPT ![Watcher] =
                [NoCall EXCEPT !.pc = "markDead", !.op = "reload", !.n = 1,
                               !.w = AllWorkers[1], !.ret = "w_next"]]
    /\ UNCHANGED <<hubVars, slowPool, srv, workers, next, wk, created, last, child, hist, nreq>>

\* WorkerPool.ScaleTo, called while requests run; the factory's first call
\* fails iff failAt = 1. The history keeps the workers it took off the list.
ScaleToCall(maxEnv) ==
    /\ nenv < maxEnv
    /\ \E newSize \in 0..ScaleMax, failAt \in 0..1 :
          LET r == ScaleTo(newSize, failAt) IN
          /\ workers' = r.workers
          /\ next' = r.next
          /\ wk' = r.wk
          /\ created' = r.created
          /\ hist' = [hist EXCEPT !.removed = @ \cup (Range(workers) \ Range(r.workers))]
    /\ nenv' = nenv + 1
    /\ UNCHANGED <<hubVars, slowPool, srv, last, child, th, nreq>>

\* ------------------------------------------------------------------- Next
ThreadsOf(C) == C \cup {G(t) : t \in C} \cup {Watcher}

NextFor(C, maxReqs, maxEnv, lens) ==
    \/ \E t \in C, op \in {"handle", "stream"} : Dispatch(t, op, maxReqs)
    \/ \E t \in C : AdmitIsDead(t)
    \/ \E t \in C : AdmitIsDraining(t)
    \/ \E t \in C : incrInFlight(t)
    \/ \E t \in C : SetBusy(t)
    \/ \E t \in C : HandleLoop(t)
    \/ \E t \in ThreadsOf(C) : RestartLock(t)
    \/ \E t \in ThreadsOf(C) : RestartDead(t)
    \/ \E t \in ThreadsOf(C) : RestartState(t)
    \/ \E t \in ThreadsOf(C) : RestartCount(t)
    \/ \E t \in C : HrWrite(t)
    \/ \E t \in C : HrRead(t)
    \/ \E t \in C : HrTimeout(t)
    \/ \E t \in C : HrKill(t)
    \/ \E t \in C : HandleCount(t)
    \/ \E t \in ThreadsOf(C) : MarkDead1(t)
    \/ \E t \in ThreadsOf(C) : MarkDead2(t)
    \/ \E t \in C : DeferDecr(t)
    \/ \E t \in C : DeferGetInFlight(t)
    \/ \E t \in C : DeferIsDraining(t)
    \/ \E t \in C : DeferIsDead(t)
    \/ \E t \in C : DeferSetIdle(t)
    \/ \E t \in C : StreamWait(t)
    \/ \E t \in C : StreamTimeout(t)
    \/ \E t \in C : StreamKill(t)
    \/ \E t \in C : SiLock(G(t))
    \/ \E t \in C : SiIsDead(G(t))
    \/ \E t \in C : SiWrite(G(t))
    \/ \E t \in C : SiRead(G(t))
    \/ \E t \in C : SiSinkFails(G(t))
    \/ \E t \in C : SiReturn(G(t))
    \/ DrainAllCall(maxEnv)
    \/ Reload(maxEnv)
    \/ \E w \in 1..created : ChildRespond(w, lens)
    \/ \E w \in 1..created : ChildExit(w)

Next == NextFor(Callers, ConcReqs, ConcEnv, {SomeLen})

Spec == Init /\ [][Next]_vars

\* one caller: its calls follow one another
NextSeq == NextFor({1}, MaxReqs, MaxEnv, {SomeLen})

SpecSeq == Init /\ [][NextSeq]_vars

\* one caller, and a child that declares frame lengths at and beyond the
\* readers' bounds
NextFrame == NextFor({1}, FrameReqs, FrameEnv, FrameLens)

SpecFrame == Init /\ [][NextFrame]_vars

\* one caller, and ScaleTo called beside it
NextScale == NextFor({1}, ScaleReqs, ScaleEnv, {SomeLen}) \/ ScaleToCall(ScaleEnv)

SpecScale == Init /\ [][NextScale]_vars

\* ================================================== Server (SpecServer)
\* strings.HasPrefix, on strings as sequences of characters
HasPrefix(str, prefix) ==
    Len(str) >= Len(prefix) /\ SubSeq(str, 1, Len(prefix)) = prefix

ReportsPrefix == <<"/", "r", "e", "p", "o", "r", "t", "s", "/">>
AnalyticsPrefix ==
    <<"/", "a", "d", "m", "i", "n", "/", "a", "n", "a", "l", "y", "t", "i", "c", "s">>

\* len(r.Body) > 2_000_000
BigBody == 2000000

\* the requests Server.Dispatch is given: [Path, Method, len(Body)]
Requests ==
    << [Path |-> <<"/">>, Method |-> "GET", BodyLen |-> 0],
       [Path |-> ReportsPrefix \o <<"q", "1">>, Method |-> "GET", BodyLen |-> 0],
       [Path |-> <<"/", "r", "e", "p", "o", "r", "t", "s">>, Method |-> "GET",
        BodyLen |-> 0],
       [Path |-> AnalyticsPrefix, Method |-> "POST", BodyLen |-> 10],
       [Path |-> <<"/", "a", "d", "m", "i", "n">>, Method |-> "POST",
        BodyLen |-> BigBody],
       [Path |-> <<"/", "u", "p">>, Method |-> "POST", BodyLen |-> BigBody + 1],
       [Path |-> <<"/">>, Method |-> "PUT", BodyLen |-> 0],
       [Path |-> <<"/">>, Method |-> "DELETE", BodyLen |-> 0] >>

\* Server.IsSlowRequest
IsSlowRequest(r) ==
    \/ HasPrefix(r.Path, ReportsPrefix)
    \/ HasPrefix(r.Path, AnalyticsPrefix)
    \/ r.BodyLen > BigBody
    \/ r.Method = "PUT" \/ r.Method = "DELETE"

fastPool == [workers |-> workers, next |-> next]

PoolUsable(p) == \E i \in 1..Len(p.workers) : Usable(p.workers[i])

SelectPoolWithFallback(slowReq) ==
    IF slowReq
    THEN (IF PoolUsable(slowPool) \/ ~PoolUsable(fastPool) THEN "slow" ELSE "fast")
    ELSE (IF PoolUsable(fastPool) \/ ~PoolUsable(slowPool) THEN "fast" ELSE "slow")

\* Server.Dispatch: if s.IsSlowRequest(req) { slowPool } else { fastPool }
SelectPool(slowReq) == IF slowReq THEN "slow" ELSE "fast"

\* NewServer(fastCount, slowCount): two pools of new workers
InitServer ==
    /\ wk = [w \in WorkerIds |-> NewWorker]
    /\ \E fastCount, slowCount \in 0..MaxPerPool :
          /\ workers = [i \in 1..fastCount |-> i]
          /\ slowPool = [workers |-> [i \in 1..slowCount |-> fastCount + i],
                         next |-> 0]
          /\ created = fastCount + slowCount
    /\ next = 0
    /\ last = NoOp
    /\ InitReq

\* Server.Dispatch(req): classify, then Dispatch on the pool chosen:
\* NextWorker, ErrNoWorkers if it returns nil, else Handle on the worker
ServerDispatch(t, i) ==
    LET req == Requests[i]
        pool == SelectPool(IsSlowRequest(req))
        p == IF pool = "slow" THEN slowPool ELSE fastPool
        o == IF pool = "slow" THEN fastPool ELSE slowPool
        r == NextWorkerOf(p)
        call == [NoCall EXCEPT !.op = "handle", !.req = nreq + 1,
                    !.allDead = /\ Len(p.workers) > 0
                                /\ \A j \in 1..Len(p.workers) : isDead(p.workers[j])]
    IN  /\ th[t].pc = "idle"
        /\ nreq < MaxSrvReqs
        /\ nreq' = nreq + 1
        /\ next' = IF pool = "fast" THEN r.next ELSE next
        /\ slowPool' = IF pool = "slow" THEN [slowPool EXCEPT !.next = r.next]
                       ELSE slowPool
        /\ srv' = [req |-> i, pool |-> pool, other |-> o,
                   otherWk |-> [j \in 1..Len(o.workers) |-> wk[o.workers[j]]],
                   otherUsable |-> PoolUsable(o)]
        /\ th' = [th EXCEPT ![t] =
                    IF r.w = Nil THEN [call EXCEPT !.res = "ErrNoWorkers"]
                    ELSE [call EXCEPT !.pc = "isDead", !.w = r.w]]
        /\ UNCHANGED <<hubVars, workers, wk, created, last, child, hist, nenv>>

NextServer ==
    \/ \E i \in 1..Len(Requests) : ServerDispatch(1, i)
    \/ AdmitIsDead(1)
    \/ AdmitIsDraining(1)
    \/ incrInFlight(1)
    \/ SetBusy(1)
    \/ HandleLoop(1)
    \/ RestartLock(1)
    \/ RestartDead(1)
    \/ RestartState(1)
    \/ RestartCount(1)
    \/ HrWrite(1)
    \/ HrRead(1)
    \/ HrTimeout(1)
    \/ HrKill(1)
    \/ HandleCount(1)
    \/ \E t \in {1, Watcher} : MarkDead1(t)
    \/ \E t \in {1, Watcher} : MarkDead2(t)
    \/ DeferDecr(1)
    \/ DeferGetInFlight(1)
    \/ DeferIsDraining(1)
    \/ DeferIsDead(1)
    \/ DeferSetIdle(1)
    \/ Reload(ConcEnv)
    \/ \E w \in Range(AllWorkers) : ChildRespond(w, {SomeLen})
    \/ \E w \in Range(AllWorkers) : ChildExit(w)

SpecServer == InitServer /\ [][NextServer]_vars

\* ======================================================= the hub (SpecHub)
InitHub == Init

NextHubFor(maxClients, maxPub, maxUnsub) ==
    \/ \E channel \in Channels : Subscribe(channel, maxClients)
    \/ \E channel \in Channels, c \in HubClients : Unsubscribe(channel, c, maxUnsub)
    \/ \E channel \in Channels : Publish(channel, maxPub)
    \/ RunTake
    \/ \E c \in HubClients : RunOffer(c)
    \/ RunUnlock
    \/ \E c \in HubClients : ClientRecv(c)

NextHub == NextHubFor(MaxClients, MaxPub, HubUnsub)

SpecHub == InitHub /\ [][NextHub]_vars

\* the hub with fewer events and more Unsubscribe calls
NextSubs == NextHubFor(MaxClients, SubPub, MaxUnsub)

SpecSubs == InitHub /\ [][NextSubs]_vars

NextHubLive == NextHubFor(LiveClients, MaxPub, HubUnsub)

\* the dispatcher goroutine is scheduled; nothing is asked of the
\* subscribers
HubFairness ==
    /\ WF_vars(RunTake)
    /\ WF_vars(\E c \in HubClients : RunOffer(c))
    /\ WF_vars(RunUnlock)

SpecHubLive == InitHub /\ [][NextHubLive]_vars /\ HubFairness

\* ======================================================== claims, SpecPool
PoolOk(f, w) == ~f[w].dead /\ f[w].state # WorkerDraining

\* C1: NextWorker on a pool of N workers examines at most N candidates from
\* the cursor on, returns the first that is neither dead (isDead) nor
\* Draining, leaves the cursor just past it, and returns nil exactly when no
\* worker of the pool qualifies.
C1_NextWorkerSkipsDeadAndDraining ==
    last.op = "NextWorker" =>
        LET ws == last.pre.workers
            n  == Len(ws)
            c  == last.pre.next
            cand(j) == ws[((c + j) % n) + 1]
            Q  == {j \in 0..(n - 1) : PoolOk(wk, cand(j))}
        IN  /\ last.examined <= n
            /\ (last.ret = Nil) <=> (Q = {})
            /\ last.ret # Nil =>
                  /\ ~isDead(last.ret) /\ ~isDraining(last.ret)
                  /\ \E j \in Q :
                        /\ \A k \in Q : j <= k
                        /\ last.ret = cand(j)
                        /\ last.examined = j + 1
                        /\ next = (c + j + 1) % n

\* [dead, draining, healthy] with the cursor on the dead one: the third is returned
C1_Witness ==
    /\ last.op = "NextWorker"
    /\ Len(workers) = 3
    /\ last.pre.next = 0
    /\ isDead(workers[1]) /\ isDraining(workers[2])
    /\ last.ret = workers[3]
    /\ last.examined = 3

\* C6: right after DrainAll (no request in flight) every worker of the pool
\* that was not dead is Draining and not dead, and every worker that was dead
\* is as it was.
C6_DrainAllMarksDraining ==
    last.op = "DrainAll" =>
        \A i \in 1..Len(workers) :
            LET w == workers[i] IN
            IF last.pre.wk[w].dead
            THEN wk[w] = last.pre.wk[w] /\ wk[w].dead /\ wk[w].state = WorkerDead
            ELSE wk[w].state = WorkerDraining /\ ~wk[w].dead

C6_Witness ==
    /\ last.op = "DrainAll"
    /\ \E i, j \in 1..Len(workers) :
          /\ last.pre.wk[workers[i]].dead /\ isDead(workers[i])
          /\ last.pre.wk[workers[j]].state = WorkerIdle
          /\ isDraining(workers[j]) /\ ~isDead(workers[j])

\* C7: ScaleTo(m) with m below the size m0 keeps exactly the first m workers
\* in order, and every worker that was at an index in [m, m0) and was not
\* Dead is Draining and not dead (one that was Dead stays as it was);
\* ScaleTo(m) with m = m0 changes nothing.
C7_ScaleToShrink ==
    last.op = "ScaleTo" =>
        LET m  == last.arg
            m0 == Len(last.pre.workers)
        IN  /\ m < m0 =>
                 /\ last.err = "nil"
                 /\ workers = [i \in 1..m |-> last.pre.workers[i]]
                 /\ \A i \in (m + 1)..m0 :
                       LET w == last.pre.workers[i] IN
                       IF last.pre.wk[w].state = WorkerDead
                       THEN wk[w] = last.pre.wk[w]
                       ELSE wk[w].state = WorkerDraining /\ ~wk[w].dead
            /\ m = m0 =>
                 /\ last.err = "nil"
                 /\ workers = last.pre.workers
                 /\ next = last.pre.next
                 /\ wk = last.pre.wk

\* 3 -> 1: the second worker was idle and is Draining, the third was Dead
C7_Witness ==
    /\ last.op = "ScaleTo" /\ last.arg = 1
    /\ Len(last.pre.workers) = 3
    /\ workers = <<last.pre.workers[1]>>
    /\ last.pre.wk[last.pre.workers[2]].state = WorkerIdle
    /\ wk[last.pre.workers[2]].state = WorkerDraining
    /\ wk[last.pre.workers[3]].state = WorkerDead

\* C8: ScaleTo(n, factory) with n above the size c keeps the workers at
\* their indices and appends what the factory returns, in call order: with no
\* failure the factory is called n - c times and the pool has n workers; at
\* the first failure ScaleTo returns the error, calls the factory no further,
\* and the workers appended before the failure stay.
C8_ScaleToGrow ==
    (last.op = "ScaleTo" /\ last.arg > Len(last.pre.workers)) =>
        LET n == last.arg
            c == Len(last.pre.workers)
            fails == last.failAt \in 1..(n - c)
            made == IF fails THEN last.failAt - 1 ELSE n - c
        IN  /\ Len(workers) = c + made
            /\ \A i \in 1..c : workers[i] = last.pre.workers[i]
            /\ \A k \in 1..made : workers[c + k] = last.pre.created + k
            /\ created = last.pre.created + made
            /\ last.calls = (IF fails THEN last.failAt ELSE n - c)
            /\ (last.err = "factory") <=> fails
            /\ (last.err = "nil") <=> ~fails
            /\ next = last.pre.next /\ wk = last.pre.wk

\* 1 -> 3 with the factory failing at its second call: one worker was appended
C8_Witness ==
    /\ last.op = "ScaleTo" /\ last.arg = 3
    /\ Len(last.pre.workers) = 1
    /\ last.err = "factory" /\ last.calls = 2
    /\ Len(workers) = 2 /\ workers[1] = last.pre.workers[1]

\* C15: in a pool whose N workers are all neither dead nor Draining, N
\* NextWorker calls that follow one another return the workers in list order,
\* cyclically from the cursor the first call found: each worker once.
C15_RoundRobin ==
    LET n == Len(workers) IN
    (/\ last.op = "NextWorker" /\ n > 0 /\ Len(last.run) = n
     /\ \A i \in 1..n : PoolOk(wk, workers[i]))
        => /\ \A k \in 1..n :
                 last.run[k].w = workers[((last.run[1].c + k - 1) % n) + 1]
           /\ \A i \in 1..n : Cardinality({k \in 1..n : last.run[k].w = workers[i]}) = 1
           /\ next = last.run[1].c

\* three calls from cursor 1 on three healthy workers: second, third, first
C15_Witness ==
    /\ last.op = "NextWorker" /\ Len(workers) = 3 /\ Len(last.run) = 3
    /\ \A i \in 1..3 : PoolOk(wk, workers[i])
    /\ last.run[1].c = 1
    /\ <<last.run[1].w, last.run[2].w, last.run[3].w>> =
          <<workers[2], workers[3], workers[1]>>

\* C18: the cursor is an index of the worker list whenever the list is not
\* empty (and 0 when it is), so NextWorker's p.workers[p.next] is in range.
C18_CursorInRange ==
    /\ next \in Nat
    /\ Len(workers) > 0 => next < Len(workers)
    /\ Len(workers) = 0 => next = 0
    /\ (last.op = "NextWorker" /\ Len(workers) > 0) =>
          \A k \in 1..Len(last.run) : last.run[k].c < Len(workers)

\* a pool shrunk to nothing and grown again, then asked for a worker
C18_Witness ==
    /\ last.op = "NextWorker" /\ last.ret # Nil
    /\ Len(workers) > 0
    /\ \A i \in 1..Len(workers) : workers[i] > Len(workers)
    /\ next < Len(workers)

\* ================================================ claims, SpecSeq and Spec
\* C2 (as claimed): a Dispatch that finds every worker of the pool Dead
\* restarts one and returns a response.
C2_DeadPoolIsRevivedByDispatch ==
    \A t \in Callers :
        (th[t].pc = "idle" /\ th[t].res # "none" /\ th[t].allDead)
            => th[t].res = "ok"

\* C3 (as claimed): a worker that has answered MaxRequests Handle calls, in
\* all, is Dead.
C3_DeadAfterKSuccessfulCalls ==
    \A i \in 1..Len(workers) :
        (th[1].pc = "idle" /\ hist.succAll[workers[i]] >= MaxRequests)
            => isDead(workers[i])

\* C3 (amended): a worker that has answered MaxRequests Handle calls since it
\* was created or last restarted is Dead; it is still in the pool's list, and
\* Stats reports the pool's size and at least this dead worker.
C3_DeadAfterKCallsSinceRestart ==
    \A i \in 1..Len(workers) :
        hist.succ[workers[i]] >= MaxRequests =>
            /\ isDead(workers[i])
            /\ hist.succ[workers[i]] = MaxRequests
            /\ Len(workers) = NWorkers
            /\ Stats.Workers = NWorkers
            /\ Stats.DeadWorkers >= 1

\* the MaxRequests-th call has just returned its response
C3_Witness ==
    /\ th[1].pc = "idle" /\ th[1].res = "ok" /\ th[1].op = "handle"
    /\ hist.succ[th[1].w] = MaxRequests
    /\ isDead(th[1].w)
    /\ Stats.DeadWorkers >= 1

\* C4 (as claimed): a Handle or Stream call that finds its worker Draining
\* returns ErrWorkerDraining and has written nothing.
C4_DrainingWorkerReturnsWorkerDraining ==
    \A t \in Callers :
        (th[t].pc = "idle" /\ th[t].sawDraining)
            => th[t].res = "ErrWorkerDraining" /\ th[t].log = <<>>

C9_OneRequestInTransit ==
    \A i \in 1..Len(workers) : Cardinality(InTransit(workers[i])) <= 1

Count(lg, x) == Cardinality({i \in 1..Len(lg) : lg[i] = x})

\* C10: a Handle call writes its request at most twice; after an error that
\* is not of the broken-pipe class, and after a response, it does nothing
\* more; it writes again only after a broken pipe and a restart; and when
\* both attempts end in a broken pipe it returns io.ErrUnexpectedEOF and the
\* worker is dead.
C10_RetryBudgetIsOne ==
    \A t \in Callers :
        th[t].op = "handle" =>
            LET lg == th[t].log IN
            /\ Count(lg, "write") <= 2
            /\ Count(lg, "bp") <= 2
            /\ \A i \in 1..Len(lg) : lg[i] \in {"other", "ok", "spawn"} => i = Len(lg)
            /\ \A i, j \in 1..Len(lg) :
                  (i < j /\ lg[i] = "write" /\ lg[j] = "write") =>
                      \E k, r \in (i + 1)..(j - 1) :
                          k < r /\ lg[k] = "bp" /\ lg[r] = "restart"
            /\ (th[t].pc = "idle" /\ th[t].res # "none" /\ lg # <<>>) =>
                  /\ (Count(lg, "bp") = 2) <=> (th[t].res = "io.ErrUnexpectedEOF")
                  /\ Count(lg, "bp") = 2 => isDead(th[t].w)
                  /\ lg[Len(lg)] = "ok" <=> th[t].res = "ok"
                  /\ lg[Len(lg)] = "other" => th[t].res \in {"json", "timeout"}
                  /\ lg[Len(lg)] = "spawn" => th[t].res = "spawn"

\* both attempts met a broken pipe
C10_Witness ==
    /\ th[1].pc = "idle" /\ th[1].op = "handle"
    /\ th[1].log = <<"write", "bp", "restart", "write", "bp">>
    /\ th[1].res = "io.ErrUnexpectedEOF"
    /\ isDead(th[1].w)

\* C11: a call that returns the timeout error has marked its worker dead
\* before killing the process, leaves the worker Dead with its process
\* killed, and a Handle call has written nothing after the timeout.
C11_TimeoutKillsAndReturns ==
    \A t \in Callers :
        /\ th[t].pc \in {"hr_kill", "s_kill"} => isDead(th[t].w)
        /\ (th[t].pc = "idle" /\ th[t].res = "timeout") =>
              /\ isDead(th[t].w)
              /\ wk[th[t].w].state = WorkerDead
              /\ ~child[th[t].w].alive
              /\ th[t].op = "handle" =>
                    /\ th[t].log # <<>>
                    /\ th[t].log[Len(th[t].log)] = "other"
                    /\ Count(th[t].log, "write") <= Attempts

\* a Handle call has returned the timeout error
C11_Witness ==
    /\ th[1].pc = "idle" /\ th[1].res = "timeout" /\ th[1].op = "handle"
    /\ isDead(th[1].w) /\ ~child[th[1].w].alive

\* C16 (as claimed): a worker with requests in flight is Busy, and a worker
\* with none is Idle, Draining or Dead; looked at when no call is between its
\* incrInFlight and its setState(WorkerBusy).
C16_InFlightAgreesWithState ==
    \A i \in 1..Len(workers) :
        LET w == workers[i] IN
        (\A t \in Callers : ~(th[t].pc = "setBusy" /\ th[t].w = w)) =>
            /\ wk[w].inFlight > 0 => wk[w].state = WorkerBusy
            /\ wk[w].inFlight = 0 =>
                  wk[w].state \in {WorkerIdle, WorkerDraining, WorkerDead}

\* C17 (as claimed): the state of a worker that startDraining set to
\* Draining is not overwritten by the setState of an admission or of a
\* completion.
C17_DrainingIsKept == hist.undrained = {}

\* C19 (as claimed): a Stream call gives the sink the status line once, and
\* before any body bytes.
C19_StatusLineOnce ==
    \A t \in Threads :
        /\ Count(th[t].out, "status") <= 1
        /\ th[t].out # <<>> => th[t].out[1] = "status"

ProtocolErrors == {"json", "unknown frame", "io.ErrUnexpectedEOF"}

\* C20 (as claimed): when Stream returns a protocol error its worker is dead.
C20_ProtocolErrorLeavesDead ==
    \A t \in Callers :
        (th[t].pc = "idle" /\ th[t].op = "stream" /\ th[t].res \in ProtocolErrors)
            => isDead(th[t].w)

\* the steps of a Handle call between a broken pipe and the restart that
\* follows it, or the return
AfterBrokenPipe ==
    {"markDead2", "loop", "restart", "decr", "getInFlight", "d_isDraining",
     "d_isDead"}

\* the steps of restart once it holds the mutex, and the write after it
Restarting == {"r_dead", "r_state", "r_count", "hr_lock"}

\* C21: a frame whose header declares length 0 or more than 10 MiB is
\* refused: the read gives io.ErrUnexpectedEOF, the payload stays unread, no
\* response comes of it and the worker is marked dead; a frame declaring 1
\* or exactly 10 MiB is read and decoded.
C21_FrameLengthBounds ==
    /\ \A t \in Callers :
          LET tk == th[t] IN
          (tk.op = "handle" /\ tk.hdr # NoLen) =>
              /\ tk.hdr \in {0, 10 * 1024 * 1024 + 1} =>
                    /\ tk.log[Len(tk.log)] \in {"bp", "spawn", "restart"}
                    /\ tk.log[Len(tk.log)] = "restart" <=> tk.pc \in Restarting
                    /\ tk.pc \in AfterBrokenPipe \cup {"markDead"} \cup Restarting
                    /\ tk.pc = "decr" => tk.err \in {"io.ErrUnexpectedEOF", "spawn"}
                    /\ tk.log[Len(tk.log)] = "bp" =>
                          /\ tk.pc \in AfterBrokenPipe => wk[tk.w].dead
                          /\ tk.pc \in AfterBrokenPipe \ {"markDead2"}
                                => wk[tk.w].state = WorkerDead
                    /\ tk.hdr > 0 /\ tk.log[Len(tk.log)] = "bp" =>
                          /\ child[tk.w].stdout # <<>>
                          /\ Head(child[tk.w].stdout).type = "payload"
              /\ tk.hdr \in {1, 10 * 1024 * 1024} =>
                    /\ tk.log[Len(tk.log)] \in {"ok", "other"}
                    /\ tk.err \in {"nil", "json"}
    /\ \A g \in Goroutines :
          LET tk == th[g] IN
          tk.hdr # NoLen =>
              /\ tk.hdr \in {0, 10 * 1024 * 1024 + 1} =>
                    /\ tk.err = "io.ErrUnexpectedEOF"
                    /\ tk.pc \in {"markDead", "markDead2", "g_unlock", "g_done"}
                    /\ tk.pc # "markDead" => wk[tk.w].dead
                    /\ tk.pc \in {"g_unlock", "g_done"} => wk[tk.w].state = WorkerDead
                    /\ tk.hdr > 0 =>
                          /\ child[tk.w].stdout # <<>>
                          /\ Head(child[tk.w].stdout).type = "payload"
              /\ tk.hdr \in {1, 10 * 1024 * 1024} =>
                    /\ tk.err # "io.ErrUnexpectedEOF"
                    /\ tk.pc \in {"markDead", "markDead2"} => tk.err = "json"

\* a response declaring 10 MiB + 1 was refused: the worker is dead, the
\* payload unread, and Handle is about to try again
C21_Witness ==
    /\ th[1].op = "handle" /\ th[1].pc = "loop" /\ th[1].attempt = 1
    /\ th[1].hdr = MaxFrameLen + 1
    /\ isDead(th[1].w)
    /\ Head(child[th[1].w].stdout).type = "payload"

\* every call has returned and no further call, DrainAll, reload or ScaleTo
\* comes
ScaleDone ==
    /\ \A t \in Threads : th[t].pc = "idle"
    /\ nreq = ScaleReqs /\ nenv = ScaleEnv

\* C24 (as claimed): a worker that a ScaleTo shrink took off the list is
\* destroyed in the end: when all is done and it has no request in flight,
\* it is Dead and its process killed.
C24_ScaledOutWorkerIsDestroyed ==
    \A w \in hist.removed :
        (ScaleDone /\ wk[w].inFlight = 0) =>
            /\ isDead(w)
            /\ wk[w].state = WorkerDead
            /\ ~child[w].alive

\* C25 (as claimed): no call waits in restart for the mutex w.mu that it
\* holds itself. sync.Mutex is not reentrant and only its holder unlocks it:
\* from such a state restart never completes, w.mu is never released and
\* every call that then waits for w.mu of that worker waits for ever.
C25_RestartNeverWaitsForOwnMutex ==
    \A t \in Threads : th[t].pc = "restart" => wk[th[t].w].mu # t

\* the calls admitted on worker w (their incrInFlight done) that have not
\* completed (their deferred decrInFlight not done)
Completing(tk) ==
    \/ tk.pc \in {"getInFlight", "d_isDraining", "d_isDead", "setIdle"}
    \/ tk.pc \in {"markDead", "markDead2"} /\ tk.ret = "return"

AdmittedOn(w) ==
    {t \in Callers : /\ th[t].w = w
                     /\ th[t].pc \notin {"idle", "isDead", "isDraining", "incrInFlight"}
                     /\ ~Completing(th[t])}

\* C26 (as claimed): the in-flight counter of a worker is the number of
\* calls admitted on it and not completed, and a completing call marks a
\* Draining worker Dead only when no other call is admitted on it.
C26_InFlightCountsAdmittedCalls ==
    \A w \in 1..created :
        /\ wk[w].inFlight = Cardinality(AdmittedOn(w))
        /\ \A t \in Callers :
              (th[t].w = w /\ th[t].pc = "markDead" /\ th[t].ret = "return")
                  => AdmittedOn(w) = {}

\* C28 (as claimed): when the one caller's Handle or Stream has returned and
\* left the worker not Dead, nothing of a request is left on the worker's
\* pipes, and a call that has written its request reads only frames of that
\* request.
C28_NoLeftoverFrames ==
    /\ (/\ th[1].pc = "idle" /\ th[G(1)].pc = "idle"
        /\ th[1].op \in {"handle", "stream"} /\ th[1].w # Nil
        /\ ~isDead(th[1].w))
           => InTransit(th[1].w) = {}
    /\ \A t \in {1, G(1)} :
          (th[t].pc \in {"hr_read", "si_read"} /\ child[th[t].w].stdout # <<>>)
              => Head(child[th[t].w].stdout).req = th[t].req

\* ====================================================== claims, SpecServer
\* the pool the last Server.Dispatch chose, and the other one
ChosenPool == IF srv.pool = "slow" THEN slowPool ELSE fastPool
OtherPool == IF srv.pool = "slow" THEN fastPool ELSE slowPool

\* C14: Server.Dispatch chooses the slow pool exactly for the requests the
\* classifier calls slow; the worker it calls is one of the chosen pool; with
\* no usable worker there it returns ErrNoWorkers whatever the other pool
\* holds; and the other pool's list and cursor stay as they were, its
\* workers are sent nothing and change only by being marked dead by a reload.
C14_DispatchByClassNoFallback ==
    srv.pool # "none" =>
        /\ srv.pool = "slow" <=> IsSlowRequest(Requests[srv.req])
        /\ th[1].w # Nil => \E i \in 1..Len(ChosenPool.workers) :
                                ChosenPool.workers[i] = th[1].w
        /\ th[1].w = Nil => th[1].pc = "idle" /\ th[1].res = "ErrNoWorkers"
        /\ OtherPool = srv.other
        /\ \A i \in 1..Len(OtherPool.workers) :
              LET w == OtherPool.workers[i] IN
              /\ wk[w].inFlight = srv.otherWk[i].inFlight
              /\ wk[w].requestCount = srv.otherWk[i].requestCount
              /\ wk[w].mu = 0
              /\ wk[w].state = srv.otherWk[i].state \/ wk[w].state = WorkerDead
              /\ child[w].stdin = <<>>

\* the chosen pool had no usable worker, the other had one
C14_Witness ==
    /\ srv.pool = "slow" /\ srv.otherUsable
    /\ th[1].pc = "idle" /\ th[1].res = "ErrNoWorkers"
    /\ PoolUsable(fastPool)
    /\ Len(slowPool.workers) > 0

\* ======================================================== claims, SpecHub
\* the events subscriber c has been given: those it took, then those queued
Given(c) == hh.recv[c] \o cl[c].ch

\* C12: a fan-out offers its event once to each subscriber registered on the
\* event's channel when it begins, and to nobody else; a subscriber whose
\* queue is full at the offer does not get the event, the others do, and the
\* fan-out ends whatever the queues hold.
C12_FanOutOnceToChannelSubscribers ==
    LET f == hh.fan IN
    /\ run.pc = "fan" => f.subs = Subs(f.ev.channel) /\ ~f.done
    /\ \A i, j \in 1..Len(f.offered) : f.offered[i] = f.offered[j] => i = j
    /\ {f.offered[i] : i \in 1..Len(f.offered)} = f.sent \cup f.dropped
    /\ f.sent \cap f.dropped = {}
    /\ f.sent \cup f.dropped \subseteq f.subs
    /\ run.pc = "fan" => f.subs = run.pending \cup f.sent \cup f.dropped
    /\ f.done => f.subs = f.sent \cup f.dropped
    /\ \A c \in f.dropped : f.len[c] = ClientCap
    /\ \A c \in f.sent : f.len[c] < ClientCap
    /\ \A c \in f.subs : hh.chanOf[c] = f.ev.channel
    /\ \A c \in HubClients :
          /\ \A i \in 1..Len(Given(c)) : Given(c)[i].channel = hh.chanOf[c]
          /\ \A i, j \in 1..Len(Given(c)) : Given(c)[i] = Given(c)[j] => i = j
          /\ f.ev # NoEvent =>
                ((\E i \in 1..Len(Given(c)) : Given(c)[i] = f.ev) <=> c \in f.sent)
          /\ Len(cl[c].ch) <= ClientCap

\* a fan-out that one subscriber's full queue lost and another got
C12_Witness ==
    /\ hh.fan.done
    /\ hh.fan.dropped # {} /\ hh.fan.sent # {}
    /\ \E c \in HubClients : hh.chanOf[c] \notin {"none", hh.fan.ev.channel}

\* C13: what a subscriber is given are events published on its channel, in
\* the order of their publication, none twice.
C13_ReceivedInPublishOrder ==
    \A c \in HubClients :
        /\ \A i \in 1..Len(Given(c)) :
              /\ Given(c)[i].id \in 1..Len(hh.pubs)
              /\ hh.pubs[Given(c)[i].id] = Given(c)[i]
              /\ Given(c)[i].channel = hh.chanOf[c]
        /\ \A i, j \in 1..Len(Given(c)) : i < j => Given(c)[i].id < Given(c)[j].id

\* a subscriber that lost an event and was given a later one, with another
\* channel's event published in between
C13_Witness ==
    \E c \in HubClients :
        /\ Len(hh.recv[c]) >= 1
        /\ \E d \in hh.drops[c] : \E i \in 1..Len(cl[c].ch) : cl[c].ch[i].id > d
        /\ Len(Given(c)) >= 3

\* C22 (as claimed): once Unsubscribe has returned for a subscriber
\* registered on the channel named, the subscriber is not in the channel's
\* set, its done channel is closed and it is given no event dispatched
\* later; and no key of the map has an empty set.
C22_UnsubscribedAndNoEmptyKey ==
    /\ \A c \in HubClients :
          hh.gone[c] # NotGone =>
              /\ c \notin Subs(hh.chanOf[c])
              /\ cl[c].done = "closed"
              /\ \A i \in 1..Len(Given(c)) : Given(c)[i].id <= hh.gone[c]
    /\ \A channel \in DOMAIN clients : clients[channel] # {}

\* C23: a Publish call waits only while the incoming queue is full; with
\* the dispatcher scheduled, every event published is taken by it in the
\* end and its fan-out ends, and a waiting Publish returns in the end,
\* whether or not a subscriber reads its queue.
C23_PublishedIsDispatched ==
    /\ [](pub.pc = "blocked" => Len(incoming) = IncomingCap)
    /\ [](Len(incoming) <= IncomingCap)
    /\ \A i \in 1..MaxPub :
          (Len(hh.pubs) >= i) ~> (hh.fan.ev.id >= i /\ run.pc = "range")
    /\ (pub.pc = "blocked") ~> (pub.pc = "idle")

\* a Publish call has waited and returned and the last event is dispatched,
\* with a subscriber's queue full and nothing read from any queue
C23_Witness ==
    /\ pub.pc = "idle" /\ pub.waited
    /\ hh.fan.ev.id = MaxPub /\ hh.fan.done
    /\ hh.nrecv = 0
    /\ \E c \in HubClients : Len(cl[c].ch) = ClientCap /\ hh.drops[c] # {}

\* C27 (as claimed): Unsubscribe closes a subscriber's done channel only
\* when it removes the subscriber from the set of the channel named, and
\* never closes it a second time.
C27_DoneClosedOnceOnRemoval ==
    hh.unsub.closes =>
        /\ hh.unsub.member
        /\ hh.unsub.wasOpen
        /\ hh.unsub.returned

====
